---- MODULE Spec2Model ----
(***************************************************************************)
(* Model of server.py: the text cleaner, the notes parser, the PDF         *)
(* extractor and the three HTTP handlers of the Scholar's Lens API.        *)
(* Strings are sequences of one-character strings.                         *)
(***************************************************************************)
EXTENDS Integers, Sequences, FiniteSets, TLC

\* ------------------------------------------------------------------
\* Bounds
\* ------------------------------------------------------------------
MaxTokens == 4

MaxFrags == 3

MaxPages == 2

MaxBytes == 2

NumRequests == 2

\* ------------------------------------------------------------------
\* Python string primitives used by server.py
\* ------------------------------------------------------------------
Digits == {"0", "1", "2", "3", "4", "5", "6", "7", "8", "9"}

IsDigit(c) == c \in Digits

\* str.isspace() / regex \s for the characters of the model
IsSpace(c) == c \in {" ", "\t", "\n", "\r"}

\* case folding used by re.I, for the letters of the three keywords
Lower(c) ==
    CASE c = "P" -> "p" [] c = "A" -> "a" [] c = "G" -> "g" [] c = "E" -> "e"
      [] c = "C" -> "c" [] c = "H" -> "h" [] c = "T" -> "t" [] c = "R" -> "r"
      [] c = "S" -> "s" [] c = "I" -> "i" [] c = "O" -> "o" [] c = "N" -> "n"
      [] OTHER -> c

RECURSIVE Concat(_)
Concat(ss) == IF ss = <<>> THEN <<>> ELSE Head(ss) \o Concat(Tail(ss))

\* sep.join(parts)
RECURSIVE Join(_, _)
Join(parts, sep) ==
    IF parts = <<>> THEN <<>>
    ELSE IF Len(parts) = 1 THEN parts[1]
    ELSE parts[1] \o sep \o Join(Tail(parts), sep)

\* s[i:].startswith(p), i is 1-based
StartsWithAt(s, p, i) ==
    /\ i + Len(p) - 1 <= Len(s)
    /\ \A k \in 1..Len(p) : s[i + k - 1] = p[k]

\* s.startswith(p)
StartsWith(s, p) == StartsWithAt(s, p, 1)

\* str.strip()
RECURSIVE LStrip(_)
LStrip(s) == IF s # <<>> /\ IsSpace(Head(s)) THEN LStrip(Tail(s)) ELSE s

RECURSIVE RStrip(_)
RStrip(s) ==
    IF s # <<>> /\ IsSpace(s[Len(s)]) THEN RStrip(SubSeq(s, 1, Len(s) - 1)) ELSE s

Strip(s) == RStrip(LStrip(s))

\* s.split(sep): left-to-right, non-overlapping; always at least one part
RECURSIVE SplitFrom(_, _, _, _)
SplitFrom(s, sep, i, cur) ==
    IF i > Len(s) THEN <<cur>>
    ELSE IF StartsWithAt(s, sep, i)
         THEN <<cur>> \o SplitFrom(s, sep, i + Len(sep), <<>>)
         ELSE SplitFrom(s, sep, i + 1, Append(cur, s[i]))

Split(s, sep) == SplitFrom(s, sep, 1, <<>>)

\* s.replace(old, new): every non-overlapping occurrence, left to right
RECURSIVE ReplaceFrom(_, _, _, _)
ReplaceFrom(s, old, new, i) ==
    IF i > Len(s) THEN <<>>
    ELSE IF StartsWithAt(s, old, i)
         THEN new \o ReplaceFrom(s, old, new, i + Len(old))
         ELSE <<s[i]>> \o ReplaceFrom(s, old, new, i + 1)

Replace(s, old, new) == ReplaceFrom(s, old, new, 1)

\* re.sub(r"\s+", " ", s)
RECURSIVE SubWs(_, _)
SubWs(s, i) ==
    IF i > Len(s) THEN <<>>
    ELSE IF IsSpace(s[i])
         THEN IF i > 1 /\ IsSpace(s[i - 1]) THEN SubWs(s, i + 1)
              ELSE <<" ">> \o SubWs(s, i + 1)
         ELSE <<s[i]>> \o SubWs(s, i + 1)

\* the join result returned as it is, whitespace runs kept
CollapseWs_Skipped(s) == s

CollapseWs(s) == SubWs(s, 1)

\* re.fullmatch(r"\d+", line)
FullMatchDigits(line) == line # <<>> /\ \A k \in 1..Len(line) : IsDigit(line[k])

Keywords == << <<"P", "a", "g", "e">>,
               <<"C", "h", "a", "p", "t", "e", "r">>,
               <<"S", "e", "c", "t", "i", "o", "n">> >>

StartsWithCI(s, p) ==
    /\ Len(p) <= Len(s)
    /\ \A k \in 1..Len(p) : Lower(s[k]) = Lower(p[k])

\* first index >= i of s that is not whitespace (Len(s)+1 when none)
RECURSIVE SkipWs(_, _)
SkipWs(s, i) == IF i <= Len(s) /\ IsSpace(s[i]) THEN SkipWs(s, i + 1) ELSE i

\* re.match(r"^(Page|Chapter|Section)\s*\d+", line, re.I)
MatchHeader(line) ==
    \E n \in 1..Len(Keywords) :
        /\ StartsWithCI(line, Keywords[n])
        /\ LET j == SkipWs(line, Len(Keywords[n]) + 1)
           IN  j <= Len(line) /\ IsDigit(line[j])

\* the list comprehension [line.strip() for line in ...]
RECURSIVE StripAll(_)
StripAll(ls) == IF ls = <<>> THEN <<>> ELSE <<Strip(Head(ls))>> \o StripAll(Tail(ls))

KeepLine(line) == line # <<>> /\ ~FullMatchDigits(line) /\ ~MatchHeader(line)

RECURSIVE FilterLines(_)
FilterLines(ls) ==
    IF ls = <<>> THEN <<>>
    ELSE IF KeepLine(Head(ls)) THEN <<Head(ls)>> \o FilterLines(Tail(ls))
         ELSE FilterLines(Tail(ls))

clean_text(text) ==
    CollapseWs(Join(FilterLines(StripAll(Split(text, <<"\n">>))), <<" ">>))

\* ------------------------------------------------------------------
\* generate_notes: parsing of the model response
\* ------------------------------------------------------------------
Delim == <<"#", "#", "#">>

ShortNotes == <<"S", "h", "o", "r", "t", " ", "N", "o", "t", "e", "s">>

BulletPoints == <<"B", "u", "l", "l", "e", "t", " ", "P", "o", "i", "n", "t", "s">>

ExamSummary == <<"E", "x", "a", "m", "-", "O", "r", "i", "e", "n", "t", "e", "d",
                 " ", "S", "u", "m", "m", "a", "r", "y">>

EmptySections == [short_notes |-> <<>>, bullet_points |-> <<>>, exam_summary |-> <<>>]

\* one iteration of the loop body: classification by position in the response
ParsePart_Positional(secs, part, idx) ==
    LET p == Strip(part)
    IN  IF idx = 2 THEN [secs EXCEPT !.short_notes = Strip(Replace(p, ShortNotes, <<>>))]
        ELSE IF idx = 3
             THEN [secs EXCEPT !.bullet_points = Strip(Replace(p, BulletPoints, <<>>))]
        ELSE IF idx = 4
             THEN [secs EXCEPT !.exam_summary = Strip(Replace(p, ExamSummary, <<>>))]
        ELSE secs

\* one iteration of the loop body: the if / elif / elif chain
ParsePart(secs, part, idx) ==
    LET p == Strip(part)
    IN  IF StartsWith(p, ShortNotes)
        THEN [secs EXCEPT !.short_notes = Strip(Replace(p, ShortNotes, <<>>))]
        ELSE IF StartsWith(p, BulletPoints)
        THEN [secs EXCEPT !.bullet_points = Strip(Replace(p, BulletPoints, <<>>))]
        ELSE IF StartsWith(p, ExamSummary)
        THEN [secs EXCEPT !.exam_summary = Strip(Replace(p, ExamSummary, <<>>))]
        ELSE secs

\* for part in parts: ...
RECURSIVE ParseLoop(_, _, _)
ParseLoop(parts, i, secs) ==
    IF i > Len(parts) THEN secs
    ELSE ParseLoop(parts, i + 1, ParsePart(secs, parts[i], i))

\* lines 98-110: the sections built from the response text
ParseSections(out) == ParseLoop(Split(out, Delim), 1, EmptySections)

\* ------------------------------------------------------------------
\* extract_text_from_pdf, bytes.decode and upload_file
\* ------------------------------------------------------------------
\* A PDF library result for a byte buffer: whether fitz.open succeeds and,
\* for every page, whether page.get_text() returns text or raises.
PageOk(t) == [ok |-> TRUE, text |-> t]

PageFail == [ok |-> FALSE, text |-> <<>>]

RECURSIVE PageTexts(_)
PageTexts(pages) ==
    IF pages = <<>> THEN <<>> ELSE <<Head(pages).text>> \o PageTexts(Tail(pages))

\* doc is the state of the document handle when the function is left:
\* "none" (never opened), "open", "closed"
extract_text_from_pdf(pdf) ==
    IF ~pdf.opens
    THEN [status |-> 400, text |-> <<>>, detail |-> "PDF text extraction failed",
          doc |-> "none"]
    ELSE IF \E k \in 1..Len(pdf.pages) : ~pdf.pages[k].ok
    THEN [status |-> 400, text |-> <<>>, detail |-> "PDF text extraction failed",
          doc |-> "open"]
    ELSE [status |-> 200, text |-> Join(PageTexts(pdf.pages), <<" ">>), detail |-> "",
          doc |-> "closed"]

\* the characters of the 7-bit codes that occur in the model
AsciiChar(b) ==
    CASE b = 10 -> "\n" [] b = 32 -> " " [] b = 49 -> "1" [] b = 120 -> "x"
      [] OTHER -> "U+" \o ToString(b)

\* bytes.decode("utf-8") for one- and two-byte sequences; any other lead
\* byte, a missing or a stray continuation byte raises UnicodeDecodeError
RECURSIVE Utf8Decode(_)
Utf8Decode(bs) ==
    IF bs = <<>> THEN [ok |-> TRUE, text |-> <<>>]
    ELSE IF bs[1] < 128
    THEN LET rest == Utf8Decode(Tail(bs))
         IN  [ok |-> rest.ok, text |-> <<AsciiChar(bs[1])>> \o rest.text]
    ELSE IF bs[1] >= 194 /\ bs[1] <= 223 /\ Len(bs) >= 2 /\ bs[2] >= 128 /\ bs[2] <= 191
    THEN LET rest == Utf8Decode(Tail(Tail(bs)))
             cp == (bs[1] - 192) * 64 + (bs[2] - 128)
         IN  [ok |-> rest.ok, text |-> <<"U+" \o ToString(cp)>> \o rest.text]
    ELSE [ok |-> FALSE, text |-> <<>>]

\* s.endswith(suf)
EndsWith(s, suf) ==
    /\ Len(suf) <= Len(s)
    /\ \A k \in 1..Len(suf) : s[Len(s) - Len(suf) + k] = suf[k]

DotPdf == <<".", "p", "d", "f">>

DotTxt == <<".", "t", "x", "t">>

Reply(st, txt, det, d) == [status |-> st, text |-> txt, detail |-> det, doc |-> d]

\* lines 132-137 applied to the text obtained from the file
CleanAndReply(text, d) ==
    LET cleaned == clean_text(text)
    IN  IF cleaned = <<>> THEN Reply(400, <<>>, "No valid text found", d)
        ELSE Reply(200, cleaned, "", d)

\* the handler without the emptiness test of lines 134-135
upload_file_NoEmptyCheck(filename, file_bytes) ==
    IF EndsWith(filename, DotPdf)
    THEN LET e == extract_text_from_pdf(file_bytes.pdf)
         IN  IF e.status # 200 THEN e ELSE Reply(200, clean_text(e.text), "", e.doc)
    ELSE IF EndsWith(filename, DotTxt)
    THEN LET d == Utf8Decode(file_bytes.raw)
         IN  IF ~d.ok THEN Reply(500, <<>>, "UnicodeDecodeError", "none")
             ELSE Reply(200, clean_text(d.text), "", "none")
    ELSE Reply(400, <<>>, "Only PDF and TXT supported", "none")

\* the response of POST /upload; status 500 is an exception that no
\* handler catches
upload_file(filename, file_bytes) ==
    IF EndsWith(filename, DotPdf)
    THEN LET e == extract_text_from_pdf(file_bytes.pdf)
         IN  IF e.status # 200 THEN e ELSE CleanAndReply(e.text, e.doc)
    ELSE IF EndsWith(filename, DotTxt)
    THEN LET d == Utf8Decode(file_bytes.raw)
         IN  IF ~d.ok THEN Reply(500, <<>>, "UnicodeDecodeError", "none")
             ELSE CleanAndReply(d.text, "none")
    ELSE Reply(400, <<>>, "Only PDF and TXT supported", "none")

\* ------------------------------------------------------------------
\* Inputs
\* ------------------------------------------------------------------
SeqsUpTo(S, n) == UNION {[1..k -> S] : k \in 0..n}

Page == <<"P", "a", "g", "e">>

CleanTokens == {Page, <<"s", "e", "c", "t", "i", "o", "n">>, <<"1">>, <<"x">>,
                <<" ">>, <<"\t">>, <<"\n">>}

CleanInputs == {Concat(ts) : ts \in SeqsUpTo(CleanTokens, MaxTokens)}

Heads == {ShortNotes, BulletPoints, ExamSummary, <<"I", "n", "t", "r", "o">>}

Bodies == {<<"x">>, <<"T", "h", "e", "s", "e", " ">> \o ShortNotes}

Fragments == {Delim \o <<" ">> \o h \o <<"\n">> \o b \o <<"\n", "\n">> :
                h \in Heads, b \in Bodies}

Preambles == {<<>>, <<"O", "k", ":", "\n">>}

Responses == {p \o Concat(fs) : p \in Preambles, fs \in SeqsUpTo(Fragments, MaxFrags)}

Requests == 1..NumRequests

PageResults == {PageOk(<<"1", "\n", "a", "b">>), PageFail}

PdfResults == {[opens |-> FALSE, pages |-> <<>>]}
                \cup {[opens |-> TRUE, pages |-> ps] : ps \in SeqsUpTo(PageResults, MaxPages)}

NoPdf == [opens |-> FALSE, pages |-> <<>>]

Bytes == {49, 120, 195, 169}

Files == {[raw |-> <<37, 80>>, pdf |-> r] : r \in PdfResults}
           \cup {[raw |-> bs, pdf |-> NoPdf] : bs \in SeqsUpTo(Bytes, MaxBytes)}

NamePdf == <<"n">> \o DotPdf

NameTxt == <<"n">> \o DotTxt

NameCsv == <<"d", ".", "c", "s", "v">>

\* the uploads of the model: PDF buffers under a .pdf name, byte strings
\* under a .txt name, and one buffer under names of neither extension
Uploads == {[filename |-> NamePdf, file |-> f] : f \in {g \in Files : g.raw = <<37, 80>>}}
             \cup {[filename |-> NameTxt, file |-> f] : f \in {g \in Files : g.pdf = NoPdf}}
             \cup {[filename |-> n, file |-> [raw |-> <<120>>, pdf |-> NoPdf]] :
                     n \in {NameCsv, <<"n", ".", "P", "D", "F">>}}

\* the uploads of the concurrent runs: a PDF with text, a PDF whose page
\* fails, a text file, a text file that cleans to nothing, a text file that
\* is not UTF-8, and a file of another extension
SomeUploads ==
    {[filename |-> NamePdf,
      file |-> [raw |-> <<37, 80>>,
                pdf |-> [opens |-> TRUE, pages |-> <<PageOk(<<"1", "\n", "a", "b">>)>>]]],
     [filename |-> NamePdf,
      file |-> [raw |-> <<37, 80>>, pdf |-> [opens |-> TRUE, pages |-> <<PageFail>>]]],
     [filename |-> NameTxt, file |-> [raw |-> <<120>>, pdf |-> NoPdf]],
     [filename |-> NameTxt, file |-> [raw |-> <<49>>, pdf |-> NoPdf]],
     [filename |-> NameTxt, file |-> [raw |-> <<195>>, pdf |-> NoPdf]],
     [filename |-> NameCsv, file |-> [raw |-> <<120>>, pdf |-> NoPdf]]}

SummText == <<"a", "b">>

Difficulty == <<"e", "a", "s", "y">>

\* what generate_content gives back: an exception, a response without
\* text, or a response text
LLMFail == [ok |-> FALSE, has_text |-> FALSE, text |-> <<>>]

LLMNoText == [ok |-> TRUE, has_text |-> FALSE, text |-> <<>>]

LLMText(t) == [ok |-> TRUE, has_text |-> TRUE, text |-> t]

F(h, b) == Delim \o <<" ">> \o h \o <<"\n">> \o b \o <<"\n">>

LLMTexts == {F(ShortNotes, <<"x">>) \o F(BulletPoints, <<"y">>) \o F(ExamSummary, <<"z">>),
             F(ExamSummary, <<"z">>) \o F(ShortNotes, <<"x">>),
             <<"n", "o">>}

\* ------------------------------------------------------------------
\* State
\* ------------------------------------------------------------------
VARIABLES
    env_key,    \* GEMINI_API_KEY of the environment: "unset" or "k"
    started,    \* module setup has run and the app accepts requests
    config,     \* module globals set by the setup: api_key, model
    call,       \* per request slot: the HTTP request being served
    frame,      \* per request slot: the handler's local variables
    llm,        \* per request slot: the generate_content round trip
    resp,       \* per request slot: the HTTP response
    raw,        \* cleaner run: the input text
    cleaned,    \* cleaner run: clean_text(raw)
    recleaned,  \* cleaner run: clean_text(cleaned)
    cstage,     \* cleaner run: "new", "once", "twice"
    output,     \* parser run: the model response text
    sections,   \* parser run: the parsed sections
    pstage      \* parser run: "new", "parsed"

svars == <<env_key, started, config, call, frame, llm, resp>>

cvars == <<raw, cleaned, recleaned, cstage>>

pvars == <<output, sections, pstage>>

vars == <<env_key, started, config, call, frame, llm, resp,
          raw, cleaned, recleaned, cstage, output, sections, pstage>>

NoCall == [kind |-> "none", filename |-> <<>>, file |-> [raw |-> <<>>, pdf |-> NoPdf],
           text |-> <<>>, difficulty |-> <<>>]

NoFrame == [pc |-> "idle", file_bytes |-> [raw |-> <<>>, pdf |-> NoPdf], prompt |-> <<>>]

NoLLM == [state |-> "none", prompt |-> <<>>, reply |-> LLMFail]

NoResp == [status |-> 0, text |-> <<>>, detail |-> "", doc |-> "none",
           notes |-> EmptySections]

ServiceInit ==
    /\ started = FALSE
    /\ config = [api_key |-> "unset", model |-> "none"]
    /\ call = [r \in Requests |-> NoCall]
    /\ frame = [r \in Requests |-> NoFrame]
    /\ llm = [r \in Requests |-> NoLLM]
    /\ resp = [r \in Requests |-> NoResp]

CleanerInit == raw = <<>> /\ cleaned = <<>> /\ recleaned = <<>> /\ cstage = "new"

ParserInit == output = <<>> /\ sections = EmptySections /\ pstage = "new"

\* ------------------------------------------------------------------
\* The service: module setup and the three routes
\* ------------------------------------------------------------------
\* lines 13-27: the key is handed to genai.configure as os.getenv returns it
Startup ==
    /\ ~started
    /\ started' = TRUE
    /\ config' = [api_key |-> env_key, model |-> "gemini-1.5-flash"]
    /\ UNCHANGED <<env_key, call, frame, llm, resp>>
    /\ UNCHANGED cvars /\ UNCHANGED pvars

Accepting(r) == started /\ call[r].kind = "none"

\* GET /
root(r) ==
    /\ Accepting(r)
    /\ call' = [call EXCEPT ![r] = [NoCall EXCEPT !.kind = "root"]]
    /\ resp' = [resp EXCEPT ![r] =
                  [NoResp EXCEPT !.status = 200, !.detail = "Scholar's Lens API running"]]
    /\ UNCHANGED <<env_key, started, config, frame, llm>>
    /\ UNCHANGED cvars /\ UNCHANGED pvars

\* POST /upload up to the await of line 123, for an upload of the set U
UploadReadOf(r, U) ==
    /\ Accepting(r)
    /\ \E u \in U :
         /\ call' = [call EXCEPT ![r] =
                       [NoCall EXCEPT !.kind = "upload", !.filename = u.filename,
                                      !.file = u.file]]
         /\ frame' = [frame EXCEPT ![r] =
                        [NoFrame EXCEPT !.pc = "read", !.file_bytes = u.file]]
    /\ UNCHANGED <<env_key, started, config, llm, resp>>
    /\ UNCHANGED cvars /\ UNCHANGED pvars

UploadRead(r) == UploadReadOf(r, SomeUploads)

\* the local variable file_bytes read from a binding every request shares
FileBytes_Shared(r) ==
    frame[CHOOSE q \in Requests : frame[q].pc = "read"].file_bytes

\* the local variable file_bytes of the handler serving r
FileBytes(r) == frame[r].file_bytes

\* POST /upload from line 125 to the response
UploadFinish(r) ==
    /\ frame[r].pc = "read"
    /\ LET res == upload_file(call[r].filename, FileBytes(r))
       IN  resp' = [resp EXCEPT ![r] =
                     [NoResp EXCEPT !.status = res.status, !.text = res.text,
                                    !.detail = res.detail, !.doc = res.doc]]
    /\ frame' = [frame EXCEPT ![r] = NoFrame]
    /\ UNCHANGED <<env_key, started, config, call, llm>>
    /\ UNCHANGED cvars /\ UNCHANGED pvars

\* lines 68-93: the f-string, its literal pieces kept whole
Prompt(text, difficulty) ==
    <<"\nYou are an academic notes generator.\n\nInput Text:\n\"\"\"">> \o text
      \o <<"\"\"\"\n\nDifficulty: ">> \o difficulty
      \o <<"\n\nRules:\n- No emojis\n- No extra information\n- Use **bold** for keywords\n- Exam-oriented\n- Simple language\n\nOutput EXACTLY in this format:\n\n### Short Notes\n...\n\n### Bullet Points\n...\n\n### Exam-Oriented Summary\n...\n">>

\* POST /summarize up to the call of line 95
SummarizeCall(r) ==
    /\ Accepting(r)
    /\ call' = [call EXCEPT ![r] =
                  [NoCall EXCEPT !.kind = "summarize", !.text = SummText,
                                 !.difficulty = Difficulty]]
    /\ frame' = [frame EXCEPT ![r] =
                   [NoFrame EXCEPT !.pc = "llm", !.prompt = Prompt(SummText, Difficulty)]]
    /\ llm' = [llm EXCEPT ![r] =
                 [NoLLM EXCEPT !.state = "sent", !.prompt = Prompt(SummText, Difficulty)]]
    /\ UNCHANGED <<env_key, started, config, resp>>
    /\ UNCHANGED cvars /\ UNCHANGED pvars

\* the provider: without a configured key the call raises; with one it
\* raises, or answers without text, or answers with text
LLMOutcomes(key) ==
    IF key = "unset" THEN {LLMFail}
    ELSE {LLMFail, LLMNoText} \cup {LLMText(t) : t \in LLMTexts}

LLMRespond(r) ==
    /\ llm[r].state = "sent"
    /\ \E o \in LLMOutcomes(config.api_key) :
         llm' = [llm EXCEPT ![r].state = "replied", ![r].reply = o]
    /\ UNCHANGED <<env_key, started, config, call, frame, resp>>
    /\ UNCHANGED cvars /\ UNCHANGED pvars

\* the value generate_content returns to the handler serving r
LLMReplyOf(r) == llm[r].reply

\* lines 96-110 and 142-143
generate_notes(reply) ==
    IF ~reply.ok
    THEN [NoResp EXCEPT !.status = 500, !.detail = "generate_content raised"]
    ELSE [NoResp EXCEPT !.status = 200,
                        !.notes = ParseSections(IF reply.has_text THEN reply.text
                                                ELSE <<>>)]

\* POST /summarize from the return of line 95 to the response
SummarizeFinish(r) ==
    /\ frame[r].pc = "llm"
    /\ llm[r].state = "replied"
    /\ resp' = [resp EXCEPT ![r] = generate_notes(LLMReplyOf(r))]
    /\ frame' = [frame EXCEPT ![r] = NoFrame]
    /\ UNCHANGED <<env_key, started, config, call, llm>>
    /\ UNCHANGED cvars /\ UNCHANGED pvars

\* the response is sent; nothing of the request remains
Complete(r) ==
    /\ resp[r].status # 0
    /\ call' = [call EXCEPT ![r] = NoCall]
    /\ llm' = [llm EXCEPT ![r] = NoLLM]
    /\ resp' = [resp EXCEPT ![r] = NoResp]
    /\ UNCHANGED <<env_key, started, config, frame>>
    /\ UNCHANGED cvars /\ UNCHANGED pvars

Init ==
    /\ env_key \in {"unset", "k"}
    /\ ServiceInit
    /\ CleanerInit
    /\ ParserInit

Next ==
    \/ Startup
    \/ \E r \in Requests : root(r)
    \/ \E r \in Requests : UploadRead(r)
    \/ \E r \in Requests : UploadFinish(r)
    \/ \E r \in Requests : SummarizeCall(r)
    \/ \E r \in Requests : LLMRespond(r)
    \/ \E r \in Requests : SummarizeFinish(r)
    \/ \E r \in Requests : Complete(r)

Spec == Init /\ [][Next]_vars

\* ------------------------------------------------------------------
\* Uploads alone, two at a time, over all files of the bounds
\* ------------------------------------------------------------------
UploadSlots == {1, 2}

UploadAny(r) == UploadReadOf(r, Uploads)

NextUpload ==
    \/ Startup
    \/ \E r \in UploadSlots : UploadAny(r)
    \/ \E r \in UploadSlots : UploadFinish(r)
    \/ \E r \in UploadSlots : Complete(r)

SpecUpload == Init /\ [][NextUpload]_vars

\* ------------------------------------------------------------------
\* The cleaner applied to a text, and again to its own result
\* ------------------------------------------------------------------
InitClean ==
    /\ env_key = "k"
    /\ ServiceInit
    /\ raw \in CleanInputs
    /\ cleaned = <<>> /\ recleaned = <<>> /\ cstage = "new"
    /\ ParserInit

Clean ==
    /\ cstage = "new"
    /\ cleaned' = clean_text(raw)
    /\ cstage' = "once"
    /\ UNCHANGED <<raw, recleaned>>
    /\ UNCHANGED svars /\ UNCHANGED pvars

CleanAgain ==
    /\ cstage = "once"
    /\ recleaned' = clean_text(cleaned)
    /\ cstage' = "twice"
    /\ UNCHANGED <<raw, cleaned>>
    /\ UNCHANGED svars /\ UNCHANGED pvars

NextClean == Clean \/ CleanAgain

SpecClean == InitClean /\ [][NextClean]_vars

\* ------------------------------------------------------------------
\* The parser applied to a model response
\* ------------------------------------------------------------------
InitParse ==
    /\ env_key = "k"
    /\ ServiceInit
    /\ CleanerInit
    /\ output \in Responses
    /\ sections = EmptySections /\ pstage = "new"

Parse ==
    /\ pstage = "new"
    /\ sections' = ParseSections(output)
    /\ pstage' = "parsed"
    /\ UNCHANGED output
    /\ UNCHANGED svars /\ UNCHANGED cvars

NextParse == Parse

SpecParse == InitParse /\ [][NextParse]_vars

\* ------------------------------------------------------------------
\* Vocabulary of the properties
\* ------------------------------------------------------------------
Parts(out) == Split(out, Delim)

Labels == {ShortNotes, BulletPoints, ExamSummary}

FieldOf(secs, label) ==
    IF label = ShortNotes THEN secs.short_notes
    ELSE IF label = BulletPoints THEN secs.bullet_points
    ELSE secs.exam_summary

\* the fragment, trimmed, starts with the heading label
HasHeading(part, label) == StartsWith(Strip(part), label)

\* the trimmed text of the fragment after its heading label
BodyOf(part, label) ==
    LET p == Strip(part) IN Strip(SubSeq(p, Len(label) + 1, Len(p)))

\* the positions of the fragments that start with the heading label
HeadingIdx(parts, label) == {i \in 1..Len(parts) : HasHeading(parts[i], label)}

Recognised(part) == \E l \in Labels : StartsWith(Strip(part), l)

Max(S) == CHOOSE m \in S : \A k \in S : k <= m

\* the three headings, once each, in order, each after a delimiter and each
\* with a nonempty body
WellFormed(parts) ==
    /\ \A l \in Labels : Cardinality(HeadingIdx(parts, l)) = 1
    /\ LET i == Max(HeadingIdx(parts, ShortNotes))
           j == Max(HeadingIdx(parts, BulletPoints))
           k == Max(HeadingIdx(parts, ExamSummary))
       IN  /\ 2 <= i /\ i < j /\ j < k
           /\ BodyOf(parts[i], ShortNotes) # <<>>
           /\ BodyOf(parts[j], BulletPoints) # <<>>
           /\ BodyOf(parts[k], ExamSummary) # <<>>

\* the body after the last heading label of the response
LastBody(parts, label) == BodyOf(parts[Max(HeadingIdx(parts, label))], label)

RECURSIVE IsSubseq(_, _)
IsSubseq(a, b) ==
    IF a = <<>> THEN TRUE
    ELSE IF b = <<>> THEN FALSE
    ELSE IF Head(a) = Head(b) THEN IsSubseq(Tail(a), Tail(b))
    ELSE IsSubseq(a, Tail(b))

RECURSIVE Reverse(_)
Reverse(q) == IF q = <<>> THEN <<>> ELSE Append(Reverse(Tail(q)), Head(q))

\* the response with its unrecognised fragments removed
OnlyRecognised(parts) == Join(SelectSeq(parts, Recognised), Delim)

\* the response with its fragments in the opposite order
Reordered(parts) == Join(Reverse(parts), Delim)

HasDoubleWs(t) == \E i \in 1..(Len(t) - 1) : IsSpace(t[i]) /\ IsSpace(t[i + 1])

UploadDone(r) == call[r].kind = "upload" /\ resp[r].status # 0

\* the text the handler obtains from the uploaded file
Obtained(c) ==
    IF EndsWith(c.filename, DotPdf)
    THEN LET e == extract_text_from_pdf(c.file.pdf) IN [ok |-> e.status = 200, text |-> e.text]
    ELSE IF EndsWith(c.filename, DotTxt) THEN Utf8Decode(c.file.raw)
    ELSE [ok |-> FALSE, text |-> <<>>]

\* the response a request's own input determines
OwnResponse(r) ==
    IF call[r].kind = "upload"
    THEN LET res == upload_file(call[r].filename, call[r].file)
         IN  [NoResp EXCEPT !.status = res.status, !.text = res.text,
                            !.detail = res.detail, !.doc = res.doc]
    ELSE IF call[r].kind = "summarize" THEN generate_notes(llm[r].reply)
    ELSE [NoResp EXCEPT !.status = 200, !.detail = "Scholar's Lens API running"]

\* ------------------------------------------------------------------
\* Properties
\* ------------------------------------------------------------------
\* C1: the cleaner is idempotent: cleaning a cleaned text returns it
\* unchanged, for every input text.
C1_Idempotent == cstage = "twice" => recleaned = cleaned

\* C2: for a response with the three headings in order, each after the
\* delimiter and with a nonempty body, every field is nonempty and equals
\* the trimmed body between its heading and the next delimiter.
C2_RoundTrip ==
    LET parts == Parts(output)
    IN  (pstage = "parsed" /\ WellFormed(parts)) =>
            \A l \in Labels :
                /\ FieldOf(sections, l) # <<>>
                /\ FieldOf(sections, l) = LastBody(parts, l)

\* C3: for every response text the parser returns exactly the three fields;
\* a field whose heading starts no fragment is empty, and a field whose
\* heading starts a fragment holds that fragment's body.
C3_GracefulDegradation ==
    LET parts == Parts(output)
    IN  pstage = "parsed" =>
            /\ DOMAIN sections = {"short_notes", "bullet_points", "exam_summary"}
            /\ \A l \in Labels :
                 /\ HeadingIdx(parts, l) = {} => FieldOf(sections, l) = <<>>
                 /\ Cardinality(HeadingIdx(parts, l)) = 1 =>
                        FieldOf(sections, l) = LastBody(parts, l)

\* C4: every upload ends with status 200 and the cleaned text, or with
\* status 400 and a message and no text; never with a server fault.
C4_OkOrClientError ==
    \A r \in Requests :
        UploadDone(r) =>
            \/ resp[r].status = 200 /\ resp[r].text # <<>>
            \/ resp[r].status = 400 /\ resp[r].detail # "" /\ resp[r].text = <<>>

\* C5: an upload answered with 200 returns a nonempty text equal to the
\* cleaner applied to the text obtained from the file; when the cleaner's
\* result is empty the upload is answered with 400 "No valid text found"
\* and no text.
C5_CleanedOrEmptyError ==
    \A r \in Requests :
        UploadDone(r) =>
            /\ resp[r].status = 200 =>
                  /\ Obtained(call[r]).ok
                  /\ resp[r].text # <<>>
                  /\ resp[r].text = clean_text(Obtained(call[r]).text)
            /\ (Obtained(call[r]).ok /\ clean_text(Obtained(call[r]).text) = <<>>) =>
                  /\ resp[r].status = 400
                  /\ resp[r].detail = "No valid text found"
                  /\ resp[r].text = <<>>

\* a 200 upload with its cleaned text in one slot and an upload refused for
\* empty cleaned text in another
C5_Witness ==
    \E r, q \in Requests :
        /\ UploadDone(r) /\ resp[r].status = 200 /\ resp[r].text # <<>>
        /\ UploadDone(q) /\ resp[q].detail = "No valid text found"
        /\ Obtained(call[q]).ok

\* C6: the cleaner's output holds no two consecutive spaces, and no
\* whitespace character other than the single space.
C6_NoDoubleSpace ==
    cstage # "new" =>
        /\ ~HasDoubleWs(cleaned)
        /\ \A i \in 1..Len(cleaned) : IsSpace(cleaned[i]) => cleaned[i] = " "

\* a cleaned text with a space in it whose input line held a run of two
\* whitespace characters between two words
C6_Witness ==
    /\ cstage = "once"
    /\ \E i \in 1..(Len(raw) - 3) :
         /\ ~IsSpace(raw[i]) /\ ~IsSpace(raw[i + 3])
         /\ raw[i + 1] \in {" ", "\t"} /\ raw[i + 2] \in {" ", "\t"}
    /\ \E i \in 1..Len(cleaned) : cleaned[i] = " "

\* C7: without an API key in the environment the service never accepts a
\* request: it fails at startup.
C7_FailFast ==
    env_key = "unset" => (~started /\ \A r \in Requests : call[r].kind = "none")

\* C8: the module globals stay as the setup left them, a slot that serves
\* no request holds nothing, and every response is the one the request's
\* own input (and its own LLM reply) determines.
C8_Stateless ==
    /\ started => config = [api_key |-> env_key, model |-> "gemini-1.5-flash"]
    /\ \A r \in Requests :
         /\ call[r].kind = "none" =>
               (frame[r] = NoFrame /\ llm[r] = NoLLM /\ resp[r] = NoResp)
         /\ resp[r].status # 0 => (resp[r] = OwnResponse(r) /\ frame[r] = NoFrame)

\* an upload answered while another upload of a different file is in
\* flight in the other slot, after its read
C8_Witness ==
    \E r, q \in Requests :
        /\ r # q
        /\ UploadDone(r) /\ resp[r].status = 200
        /\ call[q].kind = "upload" /\ frame[q].pc = "read"
        /\ call[q].file # call[r].file
        /\ q < r

\* C9: after an upload of a PDF whose document was opened, the handle is
\* closed, whether the extraction returned text or raised.
C9_HandleReleased ==
    \A r \in Requests :
        (UploadDone(r) /\ EndsWith(call[r].filename, DotPdf) /\ call[r].file.pdf.opens)
            => resp[r].doc = "closed"

\* C10: a field depends on the fragments that start with its heading, not
\* on their position: unrecognised fragments contribute nothing, a field
\* holds only characters of the body that follows its last heading, and
\* when no heading repeats the order of the fragments does not matter.
C10_HeadingNotPosition ==
    LET parts == Parts(output)
    IN  pstage = "parsed" =>
            /\ sections = ParseSections(OnlyRecognised(parts))
            /\ \A l \in Labels :
                 IF HeadingIdx(parts, l) = {} THEN FieldOf(sections, l) = <<>>
                 ELSE IsSubseq(FieldOf(sections, l), LastBody(parts, l))
            /\ (\A l \in Labels : Cardinality(HeadingIdx(parts, l)) <= 1) =>
                   sections = ParseSections(Reordered(parts))

\* a parsed response with commentary before the first delimiter, an
\* unrecognised fragment, and the summary heading before the short notes
C10_Witness ==
    /\ pstage = "parsed"
    /\ sections.exam_summary # <<>> /\ sections.short_notes # <<>>
    /\ sections.bullet_points = <<>>
    /\ LET parts == Parts(output)
       IN  /\ ~Recognised(parts[1]) /\ parts[1] # <<>>
           /\ \E i, j, k \in 2..Len(parts) :
                /\ i < j
                /\ HasHeading(parts[i], ExamSummary) /\ HasHeading(parts[j], ShortNotes)
                /\ ~Recognised(parts[k])

====
